---- MODULE Spec2Model ----
(***************************************************************************)
(* grpc.early_adopter.implementations: the lifecycle of _Server and _Stub  *)
(* (start/stop, __enter__/__exit__, port, __getattr__) run by concurrent   *)
(* threads.  Every statement executed under `with self._lock` is one step, *)
(* labelled by its source line; objects the code constructs live in `heap` *)
(* and are named by their address in it.                                   *)
(***************************************************************************)
EXTENDS Integers, Sequences, FiniteSets, TLC

\* ------------------------------------------------------------------ bounds
\* Objects (pools, servicers, backs/fronts, links, understubs) one endpoint
\* constructs in one behaviour.
MaxAlloc == 8
\* Calls in flight on one back/front at a time.
MaxInflight == 1
\* Responses a streaming call would produce.
MaxResponses == 2

\* --------------------------------------------------------------- constants
\* Python's None where an object or a port is expected; objects are numbered
\* from 1 and a bound port is positive.
None == 0
NoThread == "NoThread"
Threads == {"t1", "t2"}
\* The endpoint each thread is handed: both the server, both the stub, one
\* each, or the stub for one thread and nothing for the other.
OnServer == [t \in Threads |-> "server"]
OnStub == [t \in Threads |-> "stub"]
OnEach == [t \in Threads |-> IF t = "t1" THEN "server" ELSE "stub"]
StubAlone == [t \in Threads |-> IF t = "t1" THEN "stub" ELSE "nobody"]

\* interfaces.Cardinality
UNARY_UNARY == "UNARY_UNARY"
UNARY_STREAM == "UNARY_STREAM"
STREAM_UNARY == "STREAM_UNARY"
STREAM_STREAM == "STREAM_STREAM"
Cardinalities == {UNARY_UNARY, UNARY_STREAM, STREAM_UNARY, STREAM_STREAM}

\* Method names are strings, modelled as sequences of characters.
SM == <<"s", "/", "m">>
TM == <<"t", "/", "m">>
M == <<"m">>
X == <<"x">>
\* An attribute the understub object itself has and that is no method.
Private == <<"_">>

\* The method tables (breakdown.cardinalities) an endpoint is built with.
Tables ==
  { [n \in {SM, TM} |-> IF n = SM THEN UNARY_UNARY ELSE STREAM_UNARY],
    [n \in {SM, M} |-> IF n = SM THEN UNARY_UNARY ELSE STREAM_UNARY],
    [n \in {SM, X} |-> IF n = SM THEN STREAM_UNARY ELSE UNARY_UNARY],
    [n \in {SM, X} |-> IF n = SM THEN STREAM_STREAM ELSE UNARY_STREAM] }
\* The tables with a method that returns a response sequence.
StreamTables ==
  {c \in Tables : \E n \in DOMAIN c : c[n] \in {UNARY_STREAM, STREAM_STREAM}}

\* The names a caller looks up: registered names, trailing segments, a
\* name that is neither, and an attribute of the understub object.
Attrs == {SM, M, X, Private}

\* The port argument of insecure_server/secure_server: 0 asks for an
\* automatically selected port.
ConfigPorts == {0, 8080}
\* The ports the transport hands to a link that was given none.
AssignedPorts == {49152, 49153}

VARIABLES
  target,   \* target[t]: the endpoint thread t was handed
  server,   \* the _Server's fields
  stub,     \* the _Stub's fields
  heap,     \* heap[i]: the object at address i
  pc,       \* pc[t]: the source line thread t is at, "idle" or "done"
  call,     \* call[t]: the operation thread t is running or has just run
  result,   \* result[t]: how that operation ended
  servicer, \* servicer[t]: the local variable of _start
  held,     \* the callable the last successful stub lookup returned
  retired,  \* the objects a stop/__exit__ has cleared from the fields
  lastStop, \* lastStop[e]: a stop/__exit__ of e succeeded and no
            \* start/__enter__ has taken the lock since
  stream    \* the response sequence the last streaming call returned

vars ==
  <<target, server, stub, heap, pc, call, result, servicer, held, retired,
    lastStop, stream>>

\* ----------------------------------------------------------------- objects
\* An object: its kind, the endpoint whose code constructed it, and the
\* state the collaborators keep in it.  Addresses are numbers; the
\* constructors called by one endpoint draw theirs from that endpoint's
\* range, lowest free address first.
Obj(kind, owner) ==
  [kind |-> kind, owner |-> owner, pool |-> None, peer |-> None,
   servicer |-> None, front |-> None, methods |-> <<>>, started |-> FALSE, port |-> None,
   shutdown |-> FALSE, inflight |-> 0]

Free == Obj("free", "nobody")

Addresses == 1..(2 * MaxAlloc)
Arena(owner) ==
  IF owner = "server" THEN 1..MaxAlloc ELSE (MaxAlloc + 1)..(2 * MaxAlloc)
Ids == {i \in Addresses : heap[i].kind # "free"}
FreeIn(owner) == {i \in Arena(owner) : heap[i].kind = "free"}
NewId(owner) == CHOOSE i \in FreeIn(owner) : \A j \in FreeIn(owner) : i <= j

\* An object no field refers to any more: what is left of its state is that
\* it was shut down or stopped.
Dropped(o) ==
  [o EXCEPT !.peer = None, !.started = FALSE, !.port = None,
            !.shutdown = TRUE, !.inflight = 0]

\* A stop/__exit__ clears a field: the objects named are referred to no
\* longer (clearing a field that holds None drops nothing).
Drops(ids) ==
  /\ heap' = [i \in Addresses |-> IF i \in ids THEN Dropped(heap[i]) ELSE heap[i]]
  /\ retired' = retired \cup (ids \ {None})

\* call[t]: op and attr are the call; the other fields record its history:
\*   atCall  for a port(), the server's state when the call was made,
\*   pre     the endpoint's state when the call took the lock (or acted),
\*   race    another thread's call of the same start/enter was pending on
\*           the Idle, unlocked endpoint when this call was made (or this
\*           call was that pending one),
\*   next    this start/enter is the first to take the lock after a
\*           successful stop/exit,
\*   allocs  how many objects the call has constructed,
\*   fault   a collaborator raised inside the call,
\*   exc     the exception the guarded block ended with, for an __exit__,
\*   worker  the back/front whose in-flight call makes this call from its
\*           handler or callback (None for a call from outside),
\*   drained this stop/__exit__ stopped the link while a call was in flight.
NoCall ==
  [op |-> "none", attr |-> <<>>, atCall |-> "none", pre |-> "none",
   race |-> FALSE, next |-> FALSE, allocs |-> 0, fault |-> FALSE,
   exc |-> "none", worker |-> None, drained |-> FALSE]
\* How a guarded block ends: normally, or with an exception.
ExcInfos == {"none", "Exception"}
NoResult == [outcome |-> "none", value |-> None]
\* held before any lookup has returned.
NoCallable == [understub |-> None, method |-> <<>>, shape |-> "none"]

Returned(t, v) ==
  /\ pc' = [pc EXCEPT ![t] = "done"]
  /\ result' = [result EXCEPT ![t] = [outcome |-> "ok", value |-> v]]

Raised(t, exc) ==
  /\ pc' = [pc EXCEPT ![t] = "done"]
  /\ result' = [result EXCEPT ![t] = [outcome |-> exc, value |-> None]]

At(t, label) == pc' = [pc EXCEPT ![t] = label]

\* The call of thread t constructs one more object.
Allocates(t) == call' = [call EXCEPT ![t].allocs = @ + 1]

\* The lifecycle state of an endpoint, read off its fields.
StateOf(fields) ==
  IF \A f \in fields : f = None THEN "Idle"
  ELSE IF \A f \in fields : f # None THEN "Running"
  ELSE "Partial"

ServerFields == {server.pool, server.back, server.fore_link}
StubFields == {stub.pool, stub.front, stub.rear_link, stub.understub}
\* Running, for a caller: every field is present and the link was started.
ServerState ==
  IF StateOf(ServerFields) = "Running" /\ ~heap[server.fore_link].started
    THEN "Partial" ELSE StateOf(ServerFields)
StubState ==
  IF StateOf(StubFields) = "Running" /\ ~heap[stub.rear_link].started
    THEN "Partial" ELSE StateOf(StubFields)

\* ------------------------------------------------------------------- calls
\* A start/__enter__ constructs up to four objects; a call is made only
\* while the objects it and the pending ones may construct fit in MaxAlloc.
Starting(op) == {u \in Threads : pc[u] \notin {"idle", "done"} /\ call[u].op = op}
RoomToStart(owner, op) ==
  4 * (1 + Cardinality(Starting(op))) <= Cardinality(FreeIn(owner))

\* Thread t calls op: it goes to the call's first line.  A start/__enter__
\* made while another one is pending on the Idle, unlocked endpoint races
\* with it.
CallsWith(t, op, attr, label, state, rivals, exc, worker) ==
  /\ pc[t] = "idle"
  /\ pc' = [pc EXCEPT ![t] = label]
  /\ call' = [u \in Threads |->
       IF u = t
         THEN [NoCall EXCEPT !.op = op, !.attr = attr,
                             !.atCall = IF op = "port" THEN state ELSE "none",
                             !.race = (rivals # {}), !.exc = exc,
                             !.worker = worker]
       ELSE IF u \in rivals THEN [call[u] EXCEPT !.race = TRUE]
       ELSE call[u]]
  /\ result' = [result EXCEPT ![t] = NoResult]

Calls(t, op, attr, label, state, rivals) ==
  CallsWith(t, op, attr, label, state, rivals, "none", None)

\* The calls thread u has made from the handler or callback of an in-flight
\* call of `end` and that have not returned.
Pending(end) ==
  {u \in Threads : pc[u] \notin {"idle", "done"} /\ call[u].worker = end}
\* Who may make a call: a thread outside the endpoint, or the handler of an
\* in-flight call of `end` that is not already inside one.
Callers(end) ==
  {None} \cup {e \in {end} \ {None} :
                 heap[e].inflight > Cardinality(Pending(e))}

\* The caller has the outcome; the thread is free for its next call.
Return(t) ==
  /\ pc[t] = "done"
  /\ pc' = [pc EXCEPT ![t] = "idle"]
  /\ call' = [call EXCEPT ![t] = NoCall]
  /\ result' = [result EXCEPT ![t] = NoResult]
  /\ UNCHANGED <<stream, target, server, stub, heap, servicer, held, retired, lastStop>>

\* ---------------------------------------------------------------- _Server
\* _build_server: a server on port p with no pool, back or link.
ServerInit(p) ==
  [lock |-> NoThread, breakdown |-> [n \in {SM} |-> UNARY_UNARY], port |-> p,
   pool |-> None, back |-> None, fore_link |-> None]

\* `with self._lock:` (line 82) blocks until no thread holds the lock.
ServerLockFree == server.lock = NoThread

\* _start without mutual exclusion: it never waits for the lock.
ServerStartNeverWaits == TRUE

\* line 64: `with self._lock:` blocks until no thread holds the lock.
ServerStartLockFree == server.lock = NoThread

\* _start without its check: it goes on whatever the server holds.
ServerStartUnguarded == TRUE

\* line 65: `if self._pool is None`
ServerStartIdle == server.pool = None

\* _stop without its check: it goes on whatever the server holds.
ServerStopUnguarded == FALSE

\* line 83: `if self._pool is None`
ServerStopIdle == server.pool = None

ServerRivals(t) ==
  IF ServerState = "Idle" /\ ServerLockFree
    THEN {u \in Threads \ {t} : pc[u] = "L64"}
    ELSE {}

\* start() / __enter__ (lines 93-95, 101-102)
ServerStart(t) ==
  /\ target[t] = "server"
  /\ RoomToStart("server", "start")
  /\ Calls(t, "start", <<>>, "L64", ServerState, ServerRivals(t))
  /\ UNCHANGED <<stream, target, server, stub, heap, servicer, held, retired, lastStop>>

\* stop() (lines 104-105)
ServerStop(t) ==
  /\ target[t] = "server"
  /\ Calls(t, "stop", <<>>, "L82", ServerState, {})
  /\ UNCHANGED <<stream, target, server, stub, heap, servicer, held, retired, lastStop>>

\* __exit__(exc_type, exc_val, exc_tb) (lines 97-99): the arguments are not
\* read.
ServerExit(t, exc) ==
  /\ target[t] = "server"
  /\ CallsWith(t, "exit", <<>>, "L82", ServerState, {}, exc, None)
  /\ UNCHANGED <<stream, target, server, stub, heap, servicer, held, retired, lastStop>>

\* Lines 64-65, 78-79: take the lock; a server that holds a pool raises.
ServerL64(t) ==
  /\ pc[t] = "L64"
  /\ ServerStartLockFree
  /\ call' = [call EXCEPT ![t].pre = ServerState, ![t].next = lastStop.server]
  /\ lastStop' = [lastStop EXCEPT !.server = FALSE]
  /\ IF ServerStartIdle
       THEN /\ server' = [server EXCEPT !.lock = t]
            /\ At(t, "L66")
            /\ UNCHANGED result
       ELSE /\ Raised(t, "ValueError")
            /\ UNCHANGED server
  /\ UNCHANGED <<stream, target, stub, heap, servicer, held, retired>>

\* A collaborator raises inside the with block of _start: the lock is
\* released on the way out and nothing else is done (no except/finally).
ServerStartRaises(t) ==
  /\ pc[t] \in {"L66", "L67", "L69", "L72", "L75", "L76", "L77"}
  /\ server' = [server EXCEPT !.lock = NoThread]
  /\ Raised(t, "AllocationFailure")
  /\ call' = [call EXCEPT ![t].fault = TRUE]
  /\ servicer' = [servicer EXCEPT ![t] = None]
  /\ UNCHANGED <<stream, target, stub, heap, held, retired, lastStop>>

\* line 66: self._pool = logging_pool.pool(_THREAD_POOL_SIZE)
ServerL66(t) ==
  /\ pc[t] = "L66"
  /\ heap' = [heap EXCEPT ![NewId("server")] = Obj("pool", "server")]
  /\ server' = [server EXCEPT !.pool = NewId("server")]
  /\ Allocates(t)
  /\ At(t, "L67")
  /\ UNCHANGED <<stream, target, stub, result, servicer, held, retired, lastStop>>

\* lines 67-68: servicer = _face_implementations.servicer(self._pool, ...)
ServerL67(t) ==
  /\ pc[t] = "L67"
  /\ heap' = [heap EXCEPT ![NewId("server")] =
                [Obj("servicer", "server") EXCEPT !.pool = server.pool]]
  /\ servicer' = [servicer EXCEPT ![t] = NewId("server")]
  /\ Allocates(t)
  /\ At(t, "L69")
  /\ UNCHANGED <<stream, target, server, stub, result, held, retired, lastStop>>

\* lines 69-71: self._back = _tickets_implementations.back(servicer,
\* self._pool, self._pool, self._pool, ...)
ServerL69(t) ==
  /\ pc[t] = "L69"
  /\ heap' = [heap EXCEPT ![NewId("server")] =
                [Obj("back", "server") EXCEPT
                   !.pool = server.pool, !.servicer = servicer[t]]]
  /\ server' = [server EXCEPT !.back = NewId("server")]
  /\ Allocates(t)
  /\ At(t, "L72")
  /\ UNCHANGED <<stream, target, stub, result, servicer, held, retired, lastStop>>

\* The port argument lines 72-74 give ForeLink: none (self._port is stored
\* by __init__ and not passed on).
ForeLinkPortArgument == None

\* lines 72-74: self._fore_link = _fore.ForeLink(self._pool, ...)
ServerL72(t) ==
  /\ pc[t] = "L72"
  /\ heap' = [heap EXCEPT ![NewId("server")] =
                [Obj("fore_link", "server") EXCEPT
                   !.pool = server.pool, !.port = ForeLinkPortArgument]]
  /\ server' = [server EXCEPT !.fore_link = NewId("server")]
  /\ Allocates(t)
  /\ At(t, "L75")
  /\ UNCHANGED <<stream, target, stub, result, servicer, held, retired, lastStop>>

\* line 75: self._back.join_fore_link(self._fore_link)
ServerL75(t) ==
  /\ pc[t] = "L75"
  /\ heap' = [heap EXCEPT ![server.back].peer = server.fore_link]
  /\ At(t, "L76")
  /\ UNCHANGED <<stream, target, server, stub, call, result, servicer, held, retired, lastStop>>

\* line 76: self._fore_link.join_rear_link(self._back)
ServerL76(t) ==
  /\ pc[t] = "L76"
  /\ heap' = [heap EXCEPT ![server.fore_link].peer = server.back]
  /\ At(t, "L77")
  /\ UNCHANGED <<stream, target, server, stub, call, result, servicer, held, retired, lastStop>>

\* The port a fore link binds when it starts: the one it was constructed
\* with, or one the transport selects when it was constructed with none.
LinkBinds(requested, p) ==
  IF requested \in {None, 0} THEN p \in AssignedPorts ELSE p = requested

\* line 77: self._fore_link.start(); the with block ends, _start returns.
ServerL77(t) ==
  /\ pc[t] = "L77"
  /\ \E p \in AssignedPorts \cup ConfigPorts :
       /\ LinkBinds(heap[server.fore_link].port, p)
       /\ heap' = [heap EXCEPT ![server.fore_link].started = TRUE,
                               ![server.fore_link].port = p]
  /\ server' = [server EXCEPT !.lock = NoThread]
  /\ Returned(t, None)
  /\ servicer' = [servicer EXCEPT ![t] = None]
  /\ UNCHANGED <<stream, target, stub, call, held, retired, lastStop>>

\* _stop that clears the fields at once: no link stop, no wait, no pool
\* shutdown.
ServerStopSkipsDrain == "L89"

\* lines 85-86: the first statement of the else branch of _stop.
ServerStopFirst == "L86"

\* Lines 82-84: take the lock; a server that holds no pool raises.
ServerL82(t) ==
  /\ pc[t] = "L82"
  /\ ServerLockFree
  /\ call' = [call EXCEPT ![t].pre = ServerState]
  /\ IF ServerStopIdle
       THEN /\ Raised(t, "ValueError")
            /\ UNCHANGED server
       ELSE /\ server' = [server EXCEPT !.lock = t]
            /\ At(t, ServerStopFirst)
            /\ UNCHANGED result
  /\ UNCHANGED <<stream, target, stub, heap, servicer, held, retired, lastStop>>

\* line 86: self._fore_link.stop(); on a server whose _fore_link is None the
\* attribute access raises AttributeError and the with block is left.
ServerL86(t) ==
  /\ pc[t] = "L86"
  /\ IF server.fore_link = None
       THEN /\ Raised(t, "AttributeError")
            /\ server' = [server EXCEPT !.lock = NoThread]
            /\ UNCHANGED heap
       ELSE /\ heap' = [heap EXCEPT ![server.fore_link].started = FALSE]
            /\ At(t, "L87")
            /\ UNCHANGED <<server, result>>
  /\ call' = [call EXCEPT ![t].drained =
                server.back # None /\ heap[server.back].inflight > 0]
  /\ UNCHANGED <<stream, target, stub, servicer, held, retired, lastStop>>

\* wait_for_idle(end) returns once the end reports no operation in flight.
IsIdle(end) == heap[end].inflight = 0

\* ThreadPoolExecutor.shutdown(wait=True) returns once no work submitted to
\* the pool is running.
PoolQuiet(pool) == \A i \in Ids : heap[i].pool = pool => heap[i].inflight = 0

\* line 87: _base_utilities.wait_for_idle(self._back)
ServerL87(t) ==
  /\ pc[t] = "L87"
  /\ IsIdle(server.back)
  /\ At(t, "L88")
  /\ UNCHANGED <<stream, target, server, stub, heap, call, result, servicer, held, retired, lastStop>>

\* line 88: self._pool.shutdown(wait=True)
ServerL88(t) ==
  /\ pc[t] = "L88"
  /\ PoolQuiet(server.pool)
  /\ heap' = [heap EXCEPT ![server.pool].shutdown = TRUE]
  /\ At(t, "L89")
  /\ UNCHANGED <<stream, target, server, stub, call, result, servicer, held, retired, lastStop>>

\* line 89: self._fore_link = None
ServerL89(t) ==
  /\ pc[t] = "L89"
  /\ Drops({server.fore_link})
  /\ server' = [server EXCEPT !.fore_link = None]
  /\ At(t, "L90")
  /\ UNCHANGED <<stream, target, stub, call, result, servicer, held, lastStop>>

\* line 90: self._back = None
ServerL90(t) ==
  /\ pc[t] = "L90"
  /\ Drops({server.back, heap[server.back].servicer})
  /\ server' = [server EXCEPT !.back = None]
  /\ At(t, "L91")
  /\ UNCHANGED <<stream, target, stub, call, result, servicer, held, lastStop>>

\* _stop without line 91: the pool stays in its field.
ServerPoolKept == server.pool

\* line 91: the value `self._pool = None` leaves in the field.
ServerPoolCleared == None

\* line 99: `return False`
ServerExitValue == FALSE

\* line 91: self._pool = None; the with block ends, _stop returns, and
\* stop() returns None, __exit__ False.
ServerL91(t) ==
  /\ pc[t] = "L91"
  /\ Drops({server.pool})
  /\ server' = [server EXCEPT !.pool = ServerPoolCleared, !.lock = NoThread]
  /\ lastStop' = [lastStop EXCEPT !.server = TRUE]
  /\ IF call[t].op = "exit" THEN Returned(t, ServerExitValue)
                            ELSE Returned(t, None)
  /\ UNCHANGED <<stream, target, stub, call, servicer, held>>

\* port() (lines 107-109), called from outside or from the handler of a
\* call in flight on the server's back.
ServerPort(t) ==
  /\ target[t] = "server"
  /\ \E w \in Callers(server.back) :
       CallsWith(t, "port", <<>>, "L108", ServerState, {}, "none", w)
  /\ UNCHANGED <<stream, target, server, stub, heap, servicer, held, retired, lastStop>>

\* port() without mutual exclusion: it never waits for the lock.
ServerPortNeverWaits == TRUE

\* line 108: `with self._lock:` blocks until no thread holds the lock.
ServerPortLockFree == server.lock = NoThread

\* lines 108-109: under the lock, return self._fore_link.port(); on a
\* server whose _fore_link is None the attribute access raises.
ServerL108(t) ==
  /\ pc[t] = "L108"
  /\ ServerPortLockFree
  /\ call' = [call EXCEPT ![t].pre = ServerState]
  /\ IF server.fore_link = None
       THEN Raised(t, "AttributeError")
       ELSE Returned(t, heap[server.fore_link].port)
  /\ UNCHANGED <<stream, target, server, stub, heap, servicer, held, retired, lastStop>>

\* ------------------------------------------------------------------ _Stub
\* _build_stub / insecure_stub: a stub for the method table `cards`, with no
\* pool, front, link or understub.
StubInit(cards) ==
  [lock |-> NoThread, breakdown |-> cards, host |-> "localhost", port |-> 8080,
   secure |-> FALSE,
   pool |-> None, front |-> None, rear_link |-> None, understub |-> None]

\* `with self._lock:` (lines 133, 155, 169) blocks until no thread holds
\* the lock.
StubLockFree == stub.lock = NoThread

\* line 134: `if self._pool is None`
StubEnterIdle == stub.pool = None

\* line 156: `if self._pool is None`
StubExitIdle == stub.pool = None

\* __getattr__ without its check: it resolves the name whatever the stub
\* holds.
StubGetattrUnguarded == FALSE

\* line 170: `if self._pool is None`
StubGetattrIdle == stub.pool = None

StubRivals(t) ==
  IF StubState = "Idle" /\ StubLockFree
    THEN {u \in Threads \ {t} : pc[u] = "L133"}
    ELSE {}

\* __enter__ (line 132)
StubEnter(t) ==
  /\ target[t] = "stub"
  /\ RoomToStart("stub", "enter")
  /\ Calls(t, "enter", <<>>, "L133", StubState, StubRivals(t))
  /\ UNCHANGED <<stream, target, server, stub, heap, servicer, held, retired, lastStop>>

\* __exit__(exc_type, exc_val, exc_tb) (line 154): the arguments are not
\* read.
StubExit(t, exc) ==
  /\ target[t] = "stub"
  /\ CallsWith(t, "exit", <<>>, "L155", StubState, {}, exc, None)
  /\ UNCHANGED <<stream, target, server, stub, heap, servicer, held, retired, lastStop>>

\* Lines 133-134, 150-151: take the lock; a stub that holds a pool raises.
StubL133(t) ==
  /\ pc[t] = "L133"
  /\ StubLockFree
  /\ call' = [call EXCEPT ![t].pre = StubState, ![t].next = lastStop.stub]
  /\ lastStop' = [lastStop EXCEPT !.stub = FALSE]
  /\ IF StubEnterIdle
       THEN /\ stub' = [stub EXCEPT !.lock = t]
            /\ At(t, "L135")
            /\ UNCHANGED result
       ELSE /\ Raised(t, "ValueError")
            /\ UNCHANGED stub
  /\ UNCHANGED <<stream, target, server, heap, servicer, held, retired>>

\* A collaborator raises inside the with block of __enter__: the lock is
\* released on the way out and nothing else is done (no except/finally).
StubEnterRaises(t) ==
  /\ pc[t] \in {"L135", "L136", "L138", "L144", "L145", "L146", "L147"}
  /\ stub' = [stub EXCEPT !.lock = NoThread]
  /\ Raised(t, "AllocationFailure")
  /\ call' = [call EXCEPT ![t].fault = TRUE]
  /\ UNCHANGED <<stream, target, server, heap, servicer, held, retired, lastStop>>

\* line 135: self._pool = logging_pool.pool(_THREAD_POOL_SIZE)
StubL135(t) ==
  /\ pc[t] = "L135"
  /\ heap' = [heap EXCEPT ![NewId("stub")] = Obj("pool", "stub")]
  /\ stub' = [stub EXCEPT !.pool = NewId("stub")]
  /\ Allocates(t)
  /\ At(t, "L136")
  /\ UNCHANGED <<stream, target, server, result, servicer, held, retired, lastStop>>

\* lines 136-137: self._front = _tickets_implementations.front(self._pool,
\* self._pool, self._pool)
StubL136(t) ==
  /\ pc[t] = "L136"
  /\ heap' = [heap EXCEPT ![NewId("stub")] =
                [Obj("front", "stub") EXCEPT !.pool = stub.pool]]
  /\ stub' = [stub EXCEPT !.front = NewId("stub")]
  /\ Allocates(t)
  /\ At(t, "L138")
  /\ UNCHANGED <<stream, target, server, result, servicer, held, retired, lastStop>>

\* lines 138-143: self._rear_link = _rear.RearLink(self._host, self._port,
\* self._pool, ...)
StubL138(t) ==
  /\ pc[t] = "L138"
  /\ heap' = [heap EXCEPT ![NewId("stub")] =
                [Obj("rear_link", "stub") EXCEPT
                   !.pool = stub.pool, !.port = stub.port]]
  /\ stub' = [stub EXCEPT !.rear_link = NewId("stub")]
  /\ Allocates(t)
  /\ At(t, "L144")
  /\ UNCHANGED <<stream, target, server, result, servicer, held, retired, lastStop>>

\* line 144: self._front.join_rear_link(self._rear_link)
StubL144(t) ==
  /\ pc[t] = "L144"
  /\ heap' = [heap EXCEPT ![stub.front].peer = stub.rear_link]
  /\ At(t, "L145")
  /\ UNCHANGED <<stream, target, server, stub, call, result, servicer, held, retired, lastStop>>

\* line 145: self._rear_link.join_fore_link(self._front)
StubL145(t) ==
  /\ pc[t] = "L145"
  /\ heap' = [heap EXCEPT ![stub.rear_link].peer = stub.front]
  /\ At(t, "L146")
  /\ UNCHANGED <<stream, target, server, stub, call, result, servicer, held, retired, lastStop>>

\* line 146: self._rear_link.start()
StubL146(t) ==
  /\ pc[t] = "L146"
  /\ heap' = [heap EXCEPT ![stub.rear_link].started = TRUE]
  /\ At(t, "L147")
  /\ UNCHANGED <<stream, target, server, stub, call, result, servicer, held, retired, lastStop>>

\* _reexport.common_cardinalities: each early-adopter cardinality becomes
\* the framework's cardinality of the same shape.
CommonCardinalities(cards) ==
  [n \in DOMAIN cards |->
     CASE cards[n] = UNARY_UNARY -> "cardinality.UNARY_UNARY"
       [] cards[n] = UNARY_STREAM -> "cardinality.UNARY_STREAM"
       [] cards[n] = STREAM_UNARY -> "cardinality.STREAM_UNARY"
       [] cards[n] = STREAM_STREAM -> "cardinality.STREAM_STREAM"]

\* A dispatch surface kept from the first activation: it is built on the
\* first pool the stub ever had.
UnderstubPoolCached ==
  LET old == {i \in retired : heap[i].kind = "pool" /\ heap[i].owner = "stub"}
  IN IF old = {} THEN stub.pool ELSE CHOOSE i \in old : \A j \in old : i <= j

\* The front and the pool lines 147-149 hand to dynamic_stub.
UnderstubFront == stub.front
UnderstubPool == stub.pool

\* lines 147-149: self._understub = _face_implementations.dynamic_stub(
\* common_cardinalities(cardinalities), self._front, self._pool, '');
\* the with block ends and __enter__ returns self.
StubL147(t) ==
  /\ pc[t] = "L147"
  /\ heap' = [heap EXCEPT ![NewId("stub")] =
                [Obj("understub", "stub") EXCEPT
                   !.methods = CommonCardinalities(stub.breakdown),
                   !.front = UnderstubFront, !.pool = UnderstubPool]]
  /\ stub' = [stub EXCEPT !.understub = NewId("stub"), !.lock = NoThread]
  /\ Allocates(t)
  /\ Returned(t, None)
  /\ UNCHANGED <<stream, target, server, servicer, held, retired, lastStop>>

\* Lines 155-157: take the lock; a stub that holds no pool raises.
StubL155(t) ==
  /\ pc[t] = "L155"
  /\ StubLockFree
  /\ call' = [call EXCEPT ![t].pre = StubState]
  /\ IF StubExitIdle
       THEN /\ Raised(t, "ValueError")
            /\ UNCHANGED stub
       ELSE /\ stub' = [stub EXCEPT !.lock = t]
            /\ At(t, "L159")
            /\ UNCHANGED result
  /\ UNCHANGED <<stream, target, server, heap, servicer, held, retired, lastStop>>

\* line 159: self._rear_link.stop(); on a stub whose _rear_link is None the
\* attribute access raises AttributeError and the with block is left.
StubL159(t) ==
  /\ pc[t] = "L159"
  /\ IF stub.rear_link = None
       THEN /\ Raised(t, "AttributeError")
            /\ stub' = [stub EXCEPT !.lock = NoThread]
            /\ UNCHANGED heap
       ELSE /\ heap' = [heap EXCEPT ![stub.rear_link].started = FALSE]
            /\ At(t, "L160")
            /\ UNCHANGED <<stub, result>>
  /\ call' = [call EXCEPT ![t].drained =
                stub.front # None /\ heap[stub.front].inflight > 0]
  /\ UNCHANGED <<stream, target, server, servicer, held, retired, lastStop>>

\* line 160: _base_utilities.wait_for_idle(self._front)
StubL160(t) ==
  /\ pc[t] = "L160"
  /\ IsIdle(stub.front)
  /\ At(t, "L161")
  /\ UNCHANGED <<stream, target, server, stub, heap, call, result, servicer, held, retired, lastStop>>

\* line 161: self._pool.shutdown(wait=True)
StubL161(t) ==
  /\ pc[t] = "L161"
  /\ PoolQuiet(stub.pool)
  /\ heap' = [heap EXCEPT ![stub.pool].shutdown = TRUE]
  /\ At(t, "L162")
  /\ UNCHANGED <<stream, target, server, stub, call, result, servicer, held, retired, lastStop>>

\* line 162: self._rear_link = None
StubL162(t) ==
  /\ pc[t] = "L162"
  /\ Drops({stub.rear_link})
  /\ stub' = [stub EXCEPT !.rear_link = None]
  /\ At(t, "L163")
  /\ UNCHANGED <<stream, target, server, call, result, servicer, held, lastStop>>

\* line 163: self._front = None
StubL163(t) ==
  /\ pc[t] = "L163"
  /\ Drops({stub.front})
  /\ stub' = [stub EXCEPT !.front = None]
  /\ At(t, "L164")
  /\ UNCHANGED <<stream, target, server, call, result, servicer, held, lastStop>>

\* line 164: self._pool = None
StubL164(t) ==
  /\ pc[t] = "L164"
  /\ Drops({stub.pool})
  /\ stub' = [stub EXCEPT !.pool = None]
  /\ At(t, "L165")
  /\ UNCHANGED <<stream, target, server, call, result, servicer, held, lastStop>>

\* __exit__ that swallows the exception of the guarded block.
StubExitSuppresses == TRUE

\* line 166: `return False`
StubExitValue == FALSE

\* line 165: self._understub = None; the with block ends and __exit__
\* returns False.
StubL165(t) ==
  /\ pc[t] = "L165"
  /\ Drops({stub.understub})
  /\ stub' = [stub EXCEPT !.understub = None, !.lock = NoThread]
  /\ lastStop' = [lastStop EXCEPT !.stub = TRUE]
  /\ Returned(t, StubExitValue)
  /\ UNCHANGED <<stream, target, server, call, servicer, held>>

\* ------------------------------------------------------------ method lookup
\* str.rfind(c): the last index (from 0) of c in s, or -1.
rfind(s, c) ==
  LET hits == {i \in 1..Len(s) : s[i] = c}
  IN IF hits = {} THEN -1
     ELSE (CHOOSE i \in hits : \A j \in hits : j <= i) - 1

\* s[from:]
Slice(s, from) == SubSeq(s, from + 1, Len(s))

\* dict.get(key): the value, or no cardinality at all.
NoCardinality == "none"
Get(cards, key) == IF key \in DOMAIN cards THEN cards[key] ELSE NoCardinality

\* getattr(understub, attr, None): the understub's callable for a method it
\* was built with, the attribute for a name the object itself has; None for
\* any other name, and for every name on None.
NoUnderlying == [understub |-> None, method |-> <<>>]
UnderstubGetattr(u, attr) ==
  IF u # None /\ attr \in DOMAIN heap[u].methods \cup {Private}
    THEN [understub |-> u, method |-> attr]
    ELSE NoUnderlying

\* Line 176 without its test: the trailing-segment loop runs for every name.
ExactIgnored(underlying_attr) == TRUE

\* line 176: `if underlying_attr is None`
ExactMiss(underlying_attr) == underlying_attr = NoUnderlying

\* The loop of line 177 run to its end: method_cardinality is left holding
\* the cardinality of another entry than the one that matched.
FallbackCardinalityOfLast(cards, method_name) ==
  LET others == DOMAIN cards \ {method_name}
  IN IF others = {} THEN cards[method_name]
     ELSE cards[CHOOSE n \in others : TRUE]

\* lines 177-181: the loop variable method_cardinality at the `break` is the
\* cardinality of the entry whose name matched.
FallbackCardinality(cards, method_name) == cards[method_name]

\* Line 179 without its comparison: every name with a '/' matches.
TrailingMatchAnySegment(method_name, attr) == 0 <= rfind(method_name, "/")

\* line 179: method_name's part after its last '/' is attr.
TrailingMatch(method_name, attr) ==
  LET last_slash_index == rfind(method_name, "/")
  IN 0 <= last_slash_index /\ Slice(method_name, last_slash_index + 1) = attr

\* Lines 184-196 with a default branch: a cardinality that is none of the
\* four gets the unary-unary wrapper.
ShapeWithDefault(method_cardinality) ==
  CASE method_cardinality = UNARY_STREAM -> "unary_stream_cancellable_iterator"
    [] method_cardinality = STREAM_UNARY -> "stream_unary_sync_async"
    [] method_cardinality = STREAM_STREAM -> "stream_stream_cancellable_iterator"
    [] OTHER -> "unary_unary_sync_async"

\* lines 184-196: the wrapper the cardinality selects.
Shape(method_cardinality) ==
  CASE method_cardinality = UNARY_UNARY -> "unary_unary_sync_async"
    [] method_cardinality = UNARY_STREAM -> "unary_stream_cancellable_iterator"
    [] method_cardinality = STREAM_UNARY -> "stream_unary_sync_async"
    [] method_cardinality = STREAM_STREAM -> "stream_stream_cancellable_iterator"
    [] OTHER -> "none"

\* lines 184-196: return the wrapper around underlying_attr, or raise
\* AttributeError when the cardinality is none of the four.
Wraps(t, underlying_attr, method_cardinality) ==
  IF Shape(method_cardinality) = "none"
    THEN /\ Raised(t, "AttributeError")
         /\ UNCHANGED held
    ELSE LET wrapper == [understub |-> underlying_attr.understub,
                         method |-> underlying_attr.method,
                         shape |-> Shape(method_cardinality)]
         IN /\ Returned(t, wrapper)
            /\ held' = wrapper

\* stub.<attr> (line 168), from outside or from the callback of a call in
\* flight on the stub's front.
StubLookup(t, attr) ==
  /\ target[t] = "stub"
  /\ \E w \in Callers(stub.front) :
       CallsWith(t, "getattr", attr, "L169", StubState, {}, "none", w)
  /\ UNCHANGED <<stream, target, server, stub, heap, servicer, held, retired, lastStop>>

\* lines 169-196, under the lock: a stub that holds no pool raises
\* ValueError; otherwise the name is resolved, exactly first and then by
\* trailing segment (the first match in the dict's iteration order, which
\* is any of them), and wrapped.
StubL169(t) ==
  /\ pc[t] = "L169"
  /\ StubLockFree
  /\ call' = [call EXCEPT ![t].pre = StubState]
  /\ IF StubGetattrIdle
       THEN /\ Raised(t, "ValueError")
            /\ UNCHANGED held
       ELSE LET attr == call[t].attr
                cards == stub.breakdown
                underlying_attr == UnderstubGetattr(stub.understub, attr)
                matches == {n \in DOMAIN cards : TrailingMatch(n, attr)}
            IN IF ~ExactMiss(underlying_attr)
                 THEN Wraps(t, underlying_attr, Get(cards, attr))
               ELSE IF matches = {}
                 THEN /\ Raised(t, "AttributeError")
                      /\ UNCHANGED held
               ELSE \E method_name \in matches :
                      IF UnderstubGetattr(stub.understub, method_name) = NoUnderlying
                        THEN /\ Raised(t, "AttributeError")
                             /\ UNCHANGED held
                        ELSE Wraps(t, UnderstubGetattr(stub.understub, method_name),
                                   FallbackCardinality(cards, method_name))
  /\ UNCHANGED <<stream, target, server, stub, heap, servicer, retired, lastStop>>

\* A pool that was shut down refuses the work a call submits to it.
Refuses(pool) == heap[pool].shutdown

\* The sequence a streaming call returns (lines 187-188, 192-194:
\* _reexport.cancellable_iterator around the underlying call's result): the
\* front the call is in flight on, the responses the call would produce,
\* those produced and those the consumer has observed so far.
NoStream ==
  [state |-> "none", front |-> None, total |-> 0, produced |-> 0,
   observed |-> 0]
\* Lines 186-188 without the cancellable iterator: only the stream-stream
\* wrapper returns a response sequence.
StreamingStreamStreamOnly(shape) ==
  shape = "stream_stream_cancellable_iterator"

\* lines 186-188, 191-194: the wrappers that return a cancellable sequence.
Streaming(shape) ==
  shape \in {"unary_stream_cancellable_iterator",
             "stream_stream_cancellable_iterator"}
\* The streaming calls in flight on `end`.
Streams(end) ==
  IF stream.state = "open" /\ stream.front = end THEN 1 ELSE 0

\* A thread calls the callable a lookup returned: the wrapper hands the
\* call to underlying_attr, which runs it on the front and pool its
\* understub was built with.  The stub's lock and fields are not consulted.
\* The wrapper of a streaming method returns the response sequence at once.
StubInvoke(t) ==
  /\ target[t] = "stub"
  /\ pc[t] = "idle"
  /\ held # NoCallable
  /\ Streaming(held.shape) => stream = NoStream
  /\ IF Streaming(held.shape) /\ ~Refuses(heap[held.understub].pool)
       THEN stream' = [NoStream EXCEPT !.state = "open",
                                       !.front = heap[held.understub].front,
                                       !.total = MaxResponses]
       ELSE UNCHANGED stream
  /\ call' = [call EXCEPT ![t] =
       [NoCall EXCEPT !.op = "invoke", !.attr = held.method,
                      !.pre = StubState]]
  /\ LET u == held.understub
     IN IF Refuses(heap[u].pool)
          THEN /\ Raised(t, "RuntimeError")
               /\ UNCHANGED heap
          ELSE /\ heap[heap[u].front].inflight < MaxInflight
               /\ heap' = [heap EXCEPT ![heap[u].front].inflight = @ + 1]
               /\ Returned(t, heap[u].front)
  /\ UNCHANGED <<target, server, stub, servicer, held, retired, lastStop>>

\* A sequence that goes on yielding after it was cancelled.
YieldsAfterCancel(s) ==
  s.state \in {"open", "cancelled"} /\ s.observed < s.total

\* A sequence yields while it is neither cancelled nor exhausted.
Yields(s) == s.state = "open" /\ s.observed < s.total

\* next() on the sequence: the call produces its next response (responses
\* are produced lazily, one per step of the consumer) and the consumer
\* observes it.
StreamNext ==
  /\ Yields(stream)
  /\ stream' = [stream EXCEPT !.produced = @ + 1, !.observed = @ + 1]
  /\ UNCHANGED <<target, server, stub, heap, pc, call, result, servicer, held,
                 retired, lastStop>>

\* next() after the last response: the sequence is exhausted and the call
\* is over.
StreamEnds ==
  /\ stream.state = "open"
  /\ stream.observed = stream.total
  /\ stream' = [stream EXCEPT !.state = "exhausted"]
  /\ heap' = [heap EXCEPT ![stream.front].inflight = @ - 1]
  /\ UNCHANGED <<target, server, stub, pc, call, result, servicer, held,
                 retired, lastStop>>

\* cancel() on the sequence, at any point of its consumption: the call is
\* over and no longer in flight.
StreamCancel ==
  /\ stream.state = "open"
  /\ stream' = [stream EXCEPT !.state = "cancelled"]
  /\ heap' = [heap EXCEPT ![stream.front].inflight = @ - 1]
  /\ UNCHANGED <<target, server, stub, pc, call, result, servicer, held,
                 retired, lastStop>>

\* The consumer lets go of a sequence that is over.
StreamDiscard ==
  /\ stream.state \in {"cancelled", "exhausted"}
  /\ stream' = NoStream
  /\ UNCHANGED <<target, server, stub, heap, pc, call, result, servicer, held,
                 retired, lastStop>>

\* ------------------------------------------------------------ calls in flight
\* A remote call reaches the back of a started fore link.
CallArrives ==
  \E l \in Ids :
    /\ heap[l].kind = "fore_link"
    /\ heap[l].started
    /\ heap[l].peer # None
    /\ heap[heap[l].peer].inflight < MaxInflight
    /\ heap' = [heap EXCEPT ![heap[l].peer].inflight = @ + 1]
    /\ UNCHANGED <<stream, target, server, stub, pc, call, result, servicer, held, retired, lastStop>>

\* A call in flight on a back or front ends, once the calls it has made on
\* the endpoint have returned.
CallCompletes ==
  \E e \in Ids :
    /\ heap[e].inflight > Cardinality(Pending(e)) + Streams(e)
    /\ heap' = [heap EXCEPT ![e].inflight = @ - 1]
    /\ UNCHANGED <<stream, target, server, stub, pc, call, result, servicer, held, retired, lastStop>>

\* -------------------------------------------------------------------- spec
\* What a behaviour starts from: the endpoints as constructed, and the
\* threads handed one of them.  An endpoint no thread is handed is built
\* with the first port and table.  A stub whose table has streaming methods
\* is handed to one thread, the consumer of its response sequences.
Scenarios ==
  {[target |-> OnServer, port |-> p, cards |-> CHOOSE c \in Tables : SM \in DOMAIN c /\ TM \in DOMAIN c] :
     p \in ConfigPorts}
  \cup {[target |-> OnStub, port |-> 0, cards |-> c] : c \in Tables \ StreamTables}
  \cup {[target |-> StubAlone, port |-> 0, cards |-> c] : c \in StreamTables}
  \cup {[target |-> OnEach, port |-> 8080, cards |-> CHOOSE c \in Tables : SM \in DOMAIN c /\ M \in DOMAIN c]}

Init ==
  /\ \E scenario \in Scenarios :
       /\ target = scenario.target
       /\ server = ServerInit(scenario.port)
       /\ stub = StubInit(scenario.cards)
  /\ heap = [i \in Addresses |-> Free]
  /\ pc = [t \in Threads |-> "idle"]
  /\ call = [t \in Threads |-> NoCall]
  /\ result = [t \in Threads |-> NoResult]
  /\ servicer = [t \in Threads |-> None]
  /\ held = NoCallable
  /\ retired = {}
  /\ lastStop = [server |-> FALSE, stub |-> FALSE]
  /\ stream = NoStream

ServerStep(t) ==
  \/ ServerStart(t) \/ ServerStop(t) \/ ServerPort(t)
  \/ \E exc \in ExcInfos : ServerExit(t, exc)
  \/ ServerL64(t) \/ ServerStartRaises(t)
  \/ ServerL66(t) \/ ServerL67(t) \/ ServerL69(t) \/ ServerL72(t)
  \/ ServerL75(t) \/ ServerL76(t) \/ ServerL77(t)
  \/ ServerL82(t) \/ ServerL86(t) \/ ServerL87(t) \/ ServerL88(t)
  \/ ServerL89(t) \/ ServerL90(t) \/ ServerL91(t)
  \/ ServerL108(t)

StubStep(t) ==
  \/ StubEnter(t) \/ StubInvoke(t)
  \/ \E exc \in ExcInfos : StubExit(t, exc)
  \/ \E attr \in Attrs : StubLookup(t, attr)
  \/ StubL133(t) \/ StubEnterRaises(t)
  \/ StubL135(t) \/ StubL136(t) \/ StubL138(t) \/ StubL144(t)
  \/ StubL145(t) \/ StubL146(t) \/ StubL147(t)
  \/ StubL155(t) \/ StubL159(t) \/ StubL160(t) \/ StubL161(t)
  \/ StubL162(t) \/ StubL163(t) \/ StubL164(t) \/ StubL165(t)
  \/ StubL169(t)

Next ==
  \/ \E t \in Threads : Return(t)
  \/ \E t \in Threads : ServerStep(t)
  \/ \E t \in Threads : StubStep(t)
  \/ CallArrives
  \/ CallCompletes
  \/ StreamNext
  \/ StreamEnds
  \/ StreamCancel
  \/ StreamDiscard

Spec == Init /\ [][Next]_vars

\* A thread inside a call runs: it takes the next line of the call, or the
\* lock when the line is `with self._lock` and the lock is free, and hands
\* the outcome to its caller.
Runs(t) ==
  \/ Return(t)
  \/ ServerL64(t) \/ ServerL66(t) \/ ServerL67(t) \/ ServerL69(t)
  \/ ServerL72(t) \/ ServerL75(t) \/ ServerL76(t) \/ ServerL77(t)
  \/ ServerL82(t) \/ ServerL86(t) \/ ServerL87(t) \/ ServerL88(t)
  \/ ServerL89(t) \/ ServerL90(t) \/ ServerL91(t) \/ ServerL108(t)
  \/ StubL133(t) \/ StubL135(t) \/ StubL136(t) \/ StubL138(t)
  \/ StubL144(t) \/ StubL145(t) \/ StubL146(t) \/ StubL147(t)
  \/ StubL155(t) \/ StubL159(t) \/ StubL160(t) \/ StubL161(t)
  \/ StubL162(t) \/ StubL163(t) \/ StubL164(t) \/ StubL165(t)
  \/ StubL169(t)

\* Fair scheduling: a thread that can run again and again does run (so a
\* thread waiting for the lock gets it if it is freed again and again), and
\* a call in flight that may end does end.
FairSpec ==
  /\ Spec
  /\ \A t \in Threads : SF_vars(Runs(t))
  /\ WF_vars(CallCompletes)
  /\ WF_vars(StreamNext \/ StreamEnds \/ StreamCancel)

\* -------------------------------------------------------------- properties
Finished(t, ops) == pc[t] = "done" /\ call[t].op \in ops
\* Thread t ends a call with this step.
Finishes(t) == pc[t] # "done" /\ pc'[t] = "done"

OwnedLive(kind, owner) ==
  {i \in Ids : heap[i].kind = kind /\ heap[i].owner = owner /\ ~heap[i].shutdown}
OwnedStarted(kind, owner) ==
  {i \in Ids : heap[i].kind = kind /\ heap[i].owner = owner /\ heap[i].started}

ServerUp ==
  /\ ServerState = "Running" /\ ServerLockFree
  /\ heap[server.fore_link].started
  /\ OwnedLive("pool", "server") = {server.pool}
  /\ OwnedStarted("fore_link", "server") = {server.fore_link}
StubUp ==
  /\ StubState = "Running" /\ StubLockFree
  /\ heap[stub.rear_link].started
  /\ OwnedLive("pool", "stub") = {stub.pool}
  /\ OwnedStarted("rear_link", "stub") = {stub.rear_link}

\* Threads t and u made the same start/__enter__ call concurrently on the
\* Idle endpoint, both calls are over, and no collaborator raised in them.
Raced(t, u, op) ==
  /\ t # u
  /\ Finished(t, {op}) /\ Finished(u, {op})
  /\ call[t].race /\ call[u].race
  /\ ~call[t].fault /\ ~call[u].fault

\* C1: of two start() calls (or two __enter__ calls) made concurrently on
\* the same Idle endpoint, in which no collaborator fails, exactly one
\* returns and the other raises ValueError having constructed nothing; the
\* endpoint is then Running with exactly one live pool and one started
\* link.
C1_OneWinner ==
  \A t, u \in Threads :
    /\ Raced(t, u, "start") =>
         /\ {result[t].outcome, result[u].outcome} = {"ok", "ValueError"}
         /\ result[u].outcome = "ValueError" => call[u].allocs = 0
         /\ ServerUp
    /\ Raced(t, u, "enter") =>
         /\ {result[t].outcome, result[u].outcome} = {"ok", "ValueError"}
         /\ result[u].outcome = "ValueError" => call[u].allocs = 0
         /\ StubUp

C1_Witness ==
  /\ Raced("t1", "t2", "start")
  /\ result["t1"].outcome = "ValueError" /\ result["t2"].outcome = "ok"
  /\ ServerUp

\* C2: a start()/__enter__ in which a collaborator raises leaves the
\* endpoint Idle: pool, back/front, link (and understub) all absent.
C2_FailedStartRollsBack ==
  [][\A t \in Threads :
       (Finishes(t) /\ call'[t].fault) =>
         /\ call'[t].op = "start" => ServerState' = "Idle"
         /\ call'[t].op = "enter" => StubState' = "Idle"]_vars

\* C3: whenever an endpoint's lock is free, its pool, back/front, link (and
\* understub) are all present or all absent.
C3_AllOrNothing ==
  /\ ServerLockFree => StateOf(ServerFields) \in {"Idle", "Running"}
  /\ StubLockFree => StateOf(StubFields) \in {"Idle", "Running"}

\* C4: start()/__enter__ on a Running endpoint raises ValueError, constructs
\* nothing and leaves every field and every object as it was.
C4_StartWhileRunning ==
  [][\A t \in Threads :
       /\ (pc[t] = "L64" /\ pc'[t] # "L64" /\ StateOf(ServerFields) = "Running") =>
            /\ pc'[t] = "done" /\ result'[t].outcome = "ValueError"
            /\ call'[t].allocs = 0
            /\ server' = server /\ heap' = heap
       /\ (pc[t] = "L133" /\ pc'[t] # "L133" /\ StateOf(StubFields) = "Running") =>
            /\ pc'[t] = "done" /\ result'[t].outcome = "ValueError"
            /\ call'[t].allocs = 0
            /\ stub' = stub /\ heap' = heap]_vars

C4_Witness ==
  \E t \in Threads :
    /\ Finished(t, {"enter"}) /\ call[t].pre = "Running"
    /\ result[t].outcome = "ValueError" /\ call[t].allocs = 0
    /\ StubUp

\* C5: stop()/__exit__ on an Idle endpoint raises ValueError, constructs
\* nothing, stops nothing and leaves the endpoint Idle.
C5_StopWhileIdle ==
  [][\A t \in Threads :
       /\ (pc[t] = "L82" /\ pc'[t] # "L82" /\ ServerState = "Idle") =>
            /\ pc'[t] = "done" /\ result'[t].outcome = "ValueError"
            /\ call'[t].allocs = 0
            /\ server' = server /\ heap' = heap
       /\ (pc[t] = "L155" /\ pc'[t] # "L155" /\ StubState = "Idle") =>
            /\ pc'[t] = "done" /\ result'[t].outcome = "ValueError"
            /\ call'[t].allocs = 0
            /\ stub' = stub /\ heap' = heap]_vars

\* A stop() that finds the server Idle again after a whole Running period.
C5_Witness ==
  \E t \in Threads :
    /\ Finished(t, {"stop"}) /\ call[t].pre = "Idle"
    /\ result[t].outcome = "ValueError"
    /\ ServerState = "Idle" /\ retired # {}

\* C6: a method lookup on an Idle stub, and a call of a callable a lookup
\* returned made while the stub is Idle, both raise ValueError.
C6_UseWhileIdle ==
  \A t \in Threads :
    (Finished(t, {"getattr", "invoke"}) /\ call[t].pre = "Idle") =>
      result[t].outcome = "ValueError"

\* attr is neither a registered name nor what follows the last '/' of one.
Unregistered(attr) ==
  /\ attr \notin DOMAIN stub.breakdown
  /\ \A n \in DOMAIN stub.breakdown :
       \A k \in 1..Len(n) :
         ~ /\ n[k] = "/"
           /\ \A j \in (k + 1)..Len(n) : n[j] # "/"
           /\ attr = [j \in 1..(Len(n) - k) |-> n[k + j]]

C8_PortIsConfigured ==
  \A t \in Threads :
    (Finished(t, {"port"}) /\ call[t].pre = "Running" /\ server.port # 0) =>
      (result[t].outcome = "ok" /\ result[t].value = server.port)

\* C9: the first start()/__enter__ after a successful stop()/__exit__, no
\* collaborator failing in it, returns and leaves the endpoint Running.
C9_RestartSucceeds ==
  [][\A t \in Threads :
       (Finishes(t) /\ call'[t].next /\ ~call'[t].fault) =>
         /\ result'[t].outcome = "ok"
         /\ call'[t].op = "start" => ServerUp'
         /\ call'[t].op = "enter" => StubUp']_vars

C9_Witness ==
  \E t \in Threads :
    /\ Finished(t, {"start"}) /\ call[t].next
    /\ result[t].outcome = "ok" /\ ServerUp

\* C10: an endpoint never holds an object an earlier stop/__exit__ cleared,
\* nor one constructed by the other endpoint, and the understub a Running
\* stub holds was built on the front and the pool the stub holds.
C10_FreshPerPeriod ==
  /\ (ServerFields \cup StubFields) \cap retired = {}
  /\ \A i \in ServerFields \ {None} : heap[i].owner = "server"
  /\ \A i \in StubFields \ {None} : heap[i].owner = "stub"
  /\ StubState = "Running" =>
       /\ heap[stub.understub].front = stub.front
       /\ heap[stub.understub].pool = stub.pool
       /\ heap[stub.front].pool = stub.pool
       /\ heap[stub.rear_link].pool = stub.pool

\* Both endpoints Running, the stub in its second Running period.
C10_Witness ==
  /\ StubUp /\ ServerUp
  /\ \E i \in retired : heap[i].kind = "understub"

\* What follows the last '/' of a name that has one.
HasSlash(n) == \E k \in 1..Len(n) : n[k] = "/"
Segment(n) ==
  LET k == CHOOSE i \in 1..Len(n) : n[i] = "/" /\ \A j \in (i + 1)..Len(n) : n[j] # "/"
  IN [j \in 1..(Len(n) - k) |-> n[k + j]]

\* Threads t and u looked up, on the Running stub, the registered name n and
\* its trailing segment.
LookedUpBoth(t, u, n) ==
  /\ Finished(t, {"getattr"}) /\ Finished(u, {"getattr"})
  /\ call[t].pre = "Running" /\ call[u].pre = "Running"
  /\ n \in DOMAIN stub.breakdown /\ HasSlash(n)
  /\ call[t].attr = n /\ call[u].attr = Segment(n)

SameWrapper(t, u) ==
  /\ result[t].outcome = "ok" /\ result[u].outcome = "ok"
  /\ result[t].value.shape = result[u].value.shape
  /\ result[t].value.method = result[u].value.method

\* C14 as stated: the lookups of a registered 'pkg.Service/Method' and of
\* 'Method' on a Running stub return wrappers of the same shape around the
\* same method, whatever else the table holds.
C14_SameByEitherName ==
  \A t, u \in Threads : \A n \in Attrs :
    LookedUpBoth(t, u, n) => SameWrapper(t, u)

\* n is the only registered name that ends in its trailing segment, and the
\* segment is not itself a registered name.
Unambiguous(n) ==
  /\ Segment(n) \notin DOMAIN stub.breakdown
  /\ \A o \in DOMAIN stub.breakdown :
       (HasSlash(o) /\ Segment(o) = Segment(n)) => o = n

\* C14, amended: the two lookups return wrappers of the same shape around
\* the same method when no other registered name ends in '/Method' and
\* 'Method' is not itself registered.
C14_SameWhenUnambiguous ==
  \A t, u \in Threads : \A n \in Attrs :
    (LookedUpBoth(t, u, n) /\ Unambiguous(n)) => SameWrapper(t, u)

C14_Witness ==
  /\ LookedUpBoth("t1", "t2", SM) /\ Unambiguous(SM)
  /\ SameWrapper("t1", "t2")
  /\ result["t2"].value.method = SM
  /\ Cardinality(DOMAIN stub.breakdown) > 1

\* The wrapper each of the four cardinalities stands for (spec 4.3).
WrapperOf ==
  [c \in Cardinalities |->
     IF c = UNARY_UNARY THEN "unary_unary_sync_async"
     ELSE IF c = UNARY_STREAM THEN "unary_stream_cancellable_iterator"
     ELSE IF c = STREAM_UNARY THEN "stream_unary_sync_async"
     ELSE "stream_stream_cancellable_iterator"]

\* C15: the lookup, on a Running stub, of a name that is itself registered
\* returns the wrapper of that very method with that method's cardinality,
\* also when the name is the trailing segment of another registered name;
\* a wrapper of another method than the name looked up is returned only for
\* a name that is not registered.
C15_ExactFirst ==
  \A t \in Threads :
    (Finished(t, {"getattr"}) /\ call[t].pre = "Running") =>
      /\ call[t].attr \in DOMAIN stub.breakdown =>
           /\ result[t].outcome = "ok"
           /\ result[t].value.method = call[t].attr
           /\ result[t].value.shape = WrapperOf[stub.breakdown[call[t].attr]]
      /\ (result[t].outcome = "ok" /\ result[t].value.method # call[t].attr) =>
           call[t].attr \notin DOMAIN stub.breakdown

\* 'm' looked up where both 's/m' and 'm' are registered.
C15_Witness ==
  \E t \in Threads :
    /\ Finished(t, {"getattr"}) /\ call[t].pre = "Running"
    /\ call[t].attr = M /\ {M, SM} \subseteq DOMAIN stub.breakdown
    /\ result[t].outcome = "ok" /\ result[t].value.method = M
    /\ result[t].value.shape = "stream_unary_sync_async"

\* C20: a wrapper a lookup returns wraps a registered method and has the
\* shape of that method's cardinality, on the exact and on the
\* trailing-segment path; a name that resolves to something whose
\* cardinality is none of the four raises AttributeError.
C20_ShapeOfWrapped ==
  /\ \A t \in Threads :
       Finished(t, {"getattr"}) =>
         /\ result[t].outcome = "ok" =>
              /\ result[t].value.method \in DOMAIN stub.breakdown
              /\ stub.breakdown[result[t].value.method] \in Cardinalities
              /\ result[t].value.shape =
                   WrapperOf[stub.breakdown[result[t].value.method]]
         /\ (call[t].pre = "Running" /\ call[t].attr = Private) =>
              result[t].outcome = "AttributeError"
  /\ held # NoCallable =>
       held.shape = WrapperOf[stub.breakdown[held.method]]

\* One lookup resolved by trailing segment, another resolved to an attribute
\* without a cardinality.
C20_Witness ==
  /\ Finished("t1", {"getattr"}) /\ call["t1"].pre = "Running"
  /\ result["t1"].outcome = "ok" /\ result["t1"].value.method # call["t1"].attr
  /\ Finished("t2", {"getattr"}) /\ call["t2"].pre = "Running"
  /\ call["t2"].attr = Private /\ result["t2"].outcome = "AttributeError"

\* The objects the code of `owner` constructed.
Owned(owner) == {i \in Ids : heap[i].owner = owner}
\* An endpoint at rest: nothing of its is in flight, running or started.
Quiet(owner) ==
  \A i \in Owned(owner) :
    /\ heap[i].inflight = 0
    /\ ~heap[i].started
    /\ heap[i].kind = "pool" => heap[i].shutdown

\* Where a stop/__exit__ is, state by state: past the link's stop, and past
\* the wait and the pool's shutdown.
ServerStopOrder ==
  \A t \in Threads :
    /\ pc[t] \in {"L87", "L88", "L89"} =>
         server.fore_link # None /\ ~heap[server.fore_link].started
    /\ pc[t] \in {"L89", "L90"} =>
         /\ server.back # None /\ heap[server.back].inflight = 0
         /\ server.pool # None /\ heap[server.pool].shutdown
    /\ pc[t] = "L90" => server.fore_link = None
    /\ pc[t] = "L91" =>
         /\ server.fore_link = None /\ server.back = None
         /\ server.pool # None /\ heap[server.pool].shutdown
StubExitOrder ==
  \A t \in Threads :
    /\ pc[t] \in {"L160", "L161", "L162"} =>
         stub.rear_link # None /\ ~heap[stub.rear_link].started
    /\ pc[t] \in {"L162", "L163"} =>
         /\ stub.front # None /\ heap[stub.front].inflight = 0
         /\ stub.pool # None /\ heap[stub.pool].shutdown
    /\ pc[t] \in {"L163", "L164", "L165"} => stub.rear_link = None
    /\ pc[t] = "L164" =>
         stub.front = None /\ stub.pool # None /\ heap[stub.pool].shutdown
    /\ pc[t] = "L165" => stub.front = None /\ stub.pool = None

\* C11: a stop()/__exit__ stops the link, then waits for the back/front to
\* be idle, then shuts the pool down, and only then clears the fields; an
\* Idle endpoint has no call in flight, no running pool and no started
\* link; and no step of a thread ends a call in flight (calls end by
\* themselves).
C11_DrainThenClear ==
  /\ [](ServerStopOrder /\ StubExitOrder)
  /\ [](ServerState = "Idle" => Quiet("server"))
  /\ [](StubState = "Idle" => Quiet("stub"))
  /\ [][(\E i \in Addresses : heap'[i].inflight < heap[i].inflight) => pc' = pc]_vars

\* A stop() that found a call in flight has returned, the server Idle.
C11_Witness ==
  \E t \in Threads :
    /\ Finished(t, {"stop", "exit"}) /\ target[t] = "server"
    /\ call[t].drained /\ result[t].outcome = "ok"
    /\ ServerState = "Idle" /\ Quiet("server")

\* C13: port() on an Idle server raises; port() on a Running server returns
\* the port its started link is bound to; and port() returns a value only
\* while no stop()/__exit__ is between taking the lock and its last
\* assignment.
C13_PortWhileIdle ==
  [][\A t \in Threads :
       (pc[t] = "L108" /\ pc'[t] = "done") =>
         /\ ServerState = "Idle" => result'[t].outcome = "AttributeError"
         /\ ServerState = "Running" =>
              /\ result'[t].outcome = "ok"
              /\ result'[t].value = heap[server.fore_link].port
              /\ result'[t].value \in (AssignedPorts \cup ConfigPorts) \ {0}
         /\ result'[t].outcome = "ok" =>
              \A u \in Threads :
                pc[u] \notin {"L86", "L87", "L88", "L89", "L90", "L91"}]_vars

\* port() called on the Running server and run after a concurrent stop()
\* completed.
C13_Witness ==
  \E t, u \in Threads :
    /\ Finished(t, {"port"}) /\ call[t].atCall = "Running"
    /\ call[t].pre = "Idle" /\ result[t].outcome = "AttributeError"
    /\ Finished(u, {"stop"}) /\ result[u].outcome = "ok"
    /\ retired # {}

\* C16: an __exit__ that finds the endpoint Running returns False with the
\* endpoint Idle, its link stopped, nothing in flight and its pool shut
\* down, whether the guarded block ended normally or with an exception.
C16_ExitAlwaysReleases ==
  [][\A t \in Threads :
       (Finishes(t) /\ call'[t].op = "exit" /\ call'[t].pre = "Running") =>
         /\ result'[t].outcome = "ok"
         /\ result'[t].value = FALSE
         /\ target[t] = "server" => (ServerState' = "Idle" /\ Quiet("server")')
         /\ target[t] = "stub" => (StubState' = "Idle" /\ Quiet("stub")')]_vars

\* An __exit__ after a block that raised.
C16_Witness ==
  \E t \in Threads :
    /\ Finished(t, {"exit"}) /\ target[t] = "stub"
    /\ call[t].exc = "Exception" /\ call[t].pre = "Running"
    /\ result[t].outcome = "ok" /\ result[t].value = FALSE
    /\ StubState = "Idle" /\ Quiet("stub")

\* C12: under fair scheduling, a stop()/__exit__ that has taken the lock of
\* a Running endpoint returns, the endpoint Idle, whatever the other
\* thread and the handlers of the calls in flight call meanwhile.
C12_StopReturns ==
  \A t \in Threads :
    (pc[t] \in {"L86", "L159"} /\ call[t].pre = "Running")
      ~> (Finished(t, {"stop", "exit"}) /\ result[t].outcome = "ok")

InsideServer ==
  {t \in Threads : pc[t] \in {"L66", "L67", "L69", "L72", "L75", "L76", "L77",
                              "L86", "L87", "L88", "L89", "L90", "L91"}}
InsideStub ==
  {t \in Threads : pc[t] \in {"L135", "L136", "L138", "L144", "L145", "L146",
                              "L147", "L159", "L160", "L161", "L162", "L163",
                              "L164", "L165"}}

\* At most one thread is inside an endpoint's lock, and it is the holder.
MutualExclusion ==
  /\ Cardinality(InsideServer) <= 1 /\ Cardinality(InsideStub) <= 1
  /\ \A t \in InsideServer : server.lock = t
  /\ \A t \in InsideStub : stub.lock = t
  /\ (InsideServer = {}) = ServerLockFree
  /\ (InsideStub = {}) = StubLockFree

\* C18: at most one thread at a time is inside a transition or a guarded
\* read of an endpoint, and a port() or a method lookup runs while no
\* start or stop is inside and sees the endpoint fully Idle or fully
\* Running.
C18_OneInside ==
  /\ []MutualExclusion
  /\ [][\A t \in Threads :
         /\ (pc[t] = "L108" /\ pc'[t] # "L108") =>
              InsideServer = {} /\ ServerState \in {"Idle", "Running"}
         /\ (pc[t] = "L169" /\ pc'[t] # "L169") =>
              InsideStub = {} /\ StubState \in {"Idle", "Running"}]_vars

\* C19: the breakdown and the construction parameters never change; port()
\* and method lookup change no field and no object; and the state an
\* endpoint is left in when its lock is released differs from the state it
\* was found in only after a start/__enter__ that returned (Idle to Running)
\* or a stop/__exit__ that returned (Running to Idle).
C19_OnlyStartAndStop ==
  [][/\ server'.breakdown = server.breakdown /\ server'.port = server.port
     /\ stub'.breakdown = stub.breakdown /\ stub'.host = stub.host
     /\ stub'.port = stub.port /\ stub'.secure = stub.secure
     /\ \A t \in Threads :
          /\ (pc[t] = "L108" /\ pc'[t] # "L108") => (server' = server /\ heap' = heap)
          /\ (pc[t] = "L169" /\ pc'[t] # "L169") => (stub' = stub /\ heap' = heap)
          /\ (server.lock = t /\ server'.lock = NoThread /\ ServerState' # call[t].pre) =>
               /\ result'[t].outcome = "ok"
               /\ \/ call[t].op = "start" /\ call[t].pre = "Idle" /\ ServerState' = "Running"
                  \/ call[t].op \in {"stop", "exit"} /\ call[t].pre = "Running" /\ ServerState' = "Idle"
          /\ (stub.lock = t /\ stub'.lock = NoThread /\ StubState' # call[t].pre) =>
               /\ result'[t].outcome = "ok"
               /\ \/ call[t].op = "enter" /\ call[t].pre = "Idle" /\ StubState' = "Running"
                  \/ call[t].op = "exit" /\ call[t].pre = "Running" /\ StubState' = "Idle"
     /\ (ServerLockFree /\ ServerLockFree') => ServerState' = ServerState
     /\ (StubLockFree /\ StubLockFree') => StubState' = StubState]_vars
====
